---- MODULE Spec2Model ----
(***************************************************************************)
(* NPK soil sensor polling over RS485 / Modbus RTU.                        *)
(*                                                                         *)
(* Two Arduino sketches are modelled in one state machine:                 *)
(*   sketch = "hand" : sketch_jul23a.ino, hard-coded request frames and a  *)
(*                     raw SoftwareSerial read loop;                       *)
(*   sketch = "lib"  : sketch_jul28a.ino, the ModbusMaster library with    *)
(*                     preTransmission / postTransmission callbacks.       *)
(*                                                                         *)
(* pc names the next statement the sketch executes.  The sensor and the    *)
(* serial line are the environment: the sensor answers a complete request  *)
(* frame with a response of its choice, and the bytes of that response     *)
(* travel on `line' until the SoftwareSerial receive interrupt stores them *)
(* in rxBuf.  Bytes carry whether they answer the transaction in progress  *)
(* ("now") or an earlier one ("old").                                      *)
(***************************************************************************)
EXTENDS Integers, Sequences, FiniteSets, TLC

\* Number of passes of loop() that are explored.
MaxCycles == 2

\* Pin numbers of the transceiver control signals.
DE == 7
RE == 8

\* Registers the sensor may hold (327 = 0x0147 does not fit one byte).
SensorValues == {71, 327}

\* Raw register values the ModbusMaster response buffer may hold.
LibRawValues == {0, 1, 71, 250, 320, 725, 65535}

-----------------------------------------------------------------------------
(* Bit arithmetic and the Modbus CRC16.                                    *)

RECURSIVE Xor(_, _)
Xor(a, b) ==
  IF a = 0 THEN b
  ELSE IF b = 0 THEN a
  ELSE (((a % 2) + (b % 2)) % 2) + 2 * Xor(a \div 2, b \div 2)

RECURSIVE Pow2(_)
Pow2(n) == IF n = 0 THEN 1 ELSE 2 * Pow2(n - 1)

\* n shift-right steps, XOR with 0xA001 when the shifted-out bit is 1.
RECURSIVE CrcShift(_, _)
CrcShift(crc, n) ==
  IF n = 0 THEN crc
  ELSE IF crc % 2 = 1 THEN CrcShift(Xor(crc \div 2, 40961), n - 1)
  ELSE CrcShift(crc \div 2, n - 1)

\* The CRC register after the first k bytes: initial register 0xFFFF, each
\* byte XORed into the register and shifted out in 8 steps.
RECURSIVE CrcAfter(_, _)
CrcAfter(bytes, k) ==
  IF k = 0 THEN 65535
  ELSE CrcShift(Xor(CrcAfter(bytes, k - 1), bytes[k]), 8)

CRC16(bytes) == CrcAfter(bytes, Len(bytes))

lowByte(w) == w % 256
highByte(w) == w \div 256

\* A frame body followed by its CRC, low byte first.
WithCrc(body) ==
  LET crc == CRC16(body) IN body \o << lowByte(crc), highByte(crc) >>

-----------------------------------------------------------------------------
(* The hard-coded request frames of the hand-rolled sketch.                *)

\*        01 03 00 1e 00 01 e4 0c
nitro == << 1, 3, 0, 30, 0, 1, 228, 12 >>
\*        01 03 00 1f 00 01 b5 cc
phos == << 1, 3, 0, 31, 0, 1, 181, 204 >>
\*        01 03 00 20 00 01 85 c0
pota == << 1, 3, 0, 32, 0, 1, 133, 192 >>
\*        01 03 00 15 00 01 95 ce
ec == << 1, 3, 0, 21, 0, 1, 149, 206 >>
\*        01 03 00 06 00 01 64 0b
ph == << 1, 3, 0, 6, 0, 1, 100, 11 >>
\* The temperature frame with its count field changed to one register and
\* the CRC left as it was.
temp_CountEditedCrcKept == << 1, 3, 0, 18, 0, 1, 100, 14 >>

\*        01 03 00 12 00 02 64 0e
temp == << 1, 3, 0, 18, 0, 2, 100, 14 >>

\* The frame written by the read function of parameter p, in loop order.
RequestOf(p) ==
  CASE p = 1 -> nitro
    [] p = 2 -> phos
    [] p = 3 -> pota
    [] p = 4 -> ec
    [] p = 5 -> ph
    [] p = 6 -> temp

Params == 1..6

-----------------------------------------------------------------------------
(* The sensor: what it puts on the line in answer to a request frame.      *)

RegisterBytes(v, count) ==
  IF count = 1 THEN << highByte(v), lowByte(v) >>
  ELSE << highByte(v), lowByte(v), highByte(v), lowByte(v) >>

\* The well-formed response to a request for `count' registers holding v.
ValidResponse(v, count) ==
  WithCrc(<< 1, 3, 2 * count >> \o RegisterBytes(v, count))

\* The last byte of a frame replaced by one that differs from it.
CorruptCrc(frame) ==
  [k \in 1..Len(frame) |->
     IF k = Len(frame) THEN (frame[k] + 1) % 256 ELSE frame[k]]

ResponseKinds ==
  {"valid", "none", "badcrc", "wrongslave", "exception", "badcount"}

SensorReply(request, kind, v) ==
  LET count == request[5] * 256 + request[6] IN
  CASE kind = "valid" -> ValidResponse(v, count)
    [] kind = "none" -> << >>
    [] kind = "badcrc" -> CorruptCrc(ValidResponse(v, count))
    [] kind = "wrongslave" ->
         WithCrc(<< 2, 3, 2 * count >> \o RegisterBytes(v, count))
    [] kind = "exception" ->
         WithCrc(<< 1, 131, 2 * count >> \o RegisterBytes(v, count))
    [] kind = "badcount" ->
         WithCrc(<< 1, 3, 2 * count + 2 >> \o RegisterBytes(v, count))

\* The replies the sensor may choose from: every kind, the ill-formed ones
\* built around one register value.
Replies(request) ==
  { SensorReply(request, "valid", v) : v \in SensorValues }
    \cup { SensorReply(request, kind, 71) : kind \in ResponseKinds \ {"valid"} }

\* The replies to each request frame the sensor can receive.
RepliesTo == [request \in {RequestOf(p) : p \in Params} |-> Replies(request)]

\* A received 7-byte frame passes validation for one register: CRC, slave
\* address 1, function 0x03, byte count 2.
ValidFrame(bytes) ==
  /\ Len(bytes) = 7
  /\ WithCrc(SubSeq(bytes, 1, 5)) = bytes
  /\ bytes[1] = 1
  /\ bytes[2] = 3
  /\ bytes[3] = 2

-----------------------------------------------------------------------------
(* Single-precision floats of the library sketch: the value                *)
(* (-1)^neg * m * 2^e, with 2^23 <= m < 2^24 unless the value is zero.     *)

F32(neg, m, e) == [neg |-> neg, m |-> m, e |-> e]

F32Zero == F32(FALSE, 0, 0)

\* The error value taken to be 0.0.
MinusOne_IsZero == F32Zero

\* The literal -1.0.
MinusOne == F32(TRUE, 8388608, -23)

\* n doubled until it reaches `least': the pair << n * 2^k, k >>.
RECURSIVE Normalise(_, _, _)
Normalise(n, least, k) ==
  IF n >= least THEN << n, k >> ELSE Normalise(2 * n, least, k + 1)

\* (float)rawValue of a uint16_t: exact.
F32FromU16(r) ==
  IF r = 0 THEN F32Zero
  ELSE LET nk == Normalise(r, 8388608, 0) IN F32(FALSE, nk[1], -nk[2])

\* (float)rawValue / d for d = 10.0 or 100.0: the quotient rounded to the
\* nearest representable value, ties to even.
F32DivU16(r, d) ==
  IF r = 0 THEN F32Zero
  ELSE LET nk == Normalise(r, 8388608 * d, 0)
           q == nk[1] \div d
           rem == nk[1] % d
           m == IF 2 * rem > d \/ (2 * rem = d /\ q % 2 = 1) THEN q + 1 ELSE q
       IN IF m = 16777216 THEN F32(FALSE, 8388608, 1 - nk[2])
          ELSE F32(FALSE, m, -nk[2])

\* ModbusMaster result codes: success, the slave's exception 0x02, response
\* timed out 0xE2, invalid CRC 0xE3.
ku8MBSuccess == 0
LibResults == {ku8MBSuccess, 2, 226, 227}

\* Start register each library read function asks for, in loop order.
LibStartRegister(p) ==
  CASE p = 1 -> 30
    [] p = 2 -> 31
    [] p = 3 -> 32
    [] p = 4 -> 21
    [] p = 5 -> 6
    [] p = 6 -> 18

-----------------------------------------------------------------------------
(* State.                                                                  *)

VARIABLES
  sketch,      \* which sketch runs: "hand" or "lib"
  pc,          \* next statement
  cycle,       \* pass of loop()
  param,       \* parameter being read, 1..6 in loop order
  pin,         \* output level of the DE and RE pins
  settled,     \* a settle delay completed since the pins were last driven
  txn,         \* number of the transaction in progress
  written,     \* what mod.write returned in this transaction (-1: not yet)
  wire,        \* request bytes put on the link in this transaction
  line,        \* response bytes in flight from the sensor
  rxBuf,       \* SoftwareSerial receive buffer
  values,      \* byte values[11], each slot with where its content came from
  i,           \* index of the read loop
  rxSwitches,  \* times this transaction entered receive direction
  ret,         \* value the last read function returned to loop()
  result,      \* result of node.readHoldingRegisters
  rawValue,    \* node.getResponseBuffer(0)
  report       \* what loop() printed for each parameter

vars ==
  << sketch, pc, cycle, param, pin, settled, txn, written, wire, line, rxBuf,
     values, i, rxSwitches, ret, result, rawValue, report >>

\* Slot of values[]: the byte; where it came from ("none": no byte was
\* received and read() gave -1, "own": the response to the request of the
\* transaction that read it, "other": the response to an earlier request);
\* and which transaction stored it ("never", "now": the one in progress,
\* "old": an earlier one).
Slot(b, src, by) == [b |-> b, src |-> src, by |-> by]

\* A new transaction begins: what belonged to the one in progress now
\* belongs to an earlier one.
AgedBytes(bytes) == [k \in DOMAIN bytes |-> [bytes[k] EXCEPT !.t = "old"]]
AgedSlots(slots) ==
  [k \in DOMAIN slots |->
     [slots[k] EXCEPT !.by = IF @ = "now" THEN "old" ELSE @]]

digitalWrite(p, level) == pin' = [pin EXCEPT ![p] = level]

Transmit == pin[DE] = "HIGH" /\ pin[RE] = "HIGH"
Receive == pin[DE] = "LOW" /\ pin[RE] = "LOW"

Init ==
  /\ sketch \in {"hand", "lib"}
  /\ pc = "setup"
  /\ cycle = 1
  /\ param = 1
  /\ pin = [p \in {DE, RE} |-> "LOW"]
  /\ settled = FALSE
  /\ txn = 0
  /\ written = -1
  /\ wire = << >>
  /\ line = << >>
  /\ rxBuf = << >>
  /\ values = [k \in 1..11 |-> Slot(0, "none", "never")]
  /\ i = 0
  /\ rxSwitches = 0
  /\ ret = IF sketch = "hand" THEN 0 ELSE F32Zero
  /\ result = ku8MBSuccess
  /\ rawValue = 0
  /\ report = [p \in Params |-> "none"]

-----------------------------------------------------------------------------
(* The hand-rolled sketch.  The six read functions share one body; the    *)
(* steps below are the statements of that body for the current parameter. *)

Hand == sketch = "hand"

\* Entering receive direction is counted when both pins become LOW.
CountSwitch ==
  rxSwitches' = IF ~Receive /\ Receive' THEN rxSwitches + 1 ELSE rxSwitches

\* setup(): serial ports and pinMode only, the pins are not written.
HandSetup ==
  /\ Hand /\ pc = "setup"
  /\ pc' = "tx_de"
  /\ UNCHANGED << sketch, cycle, param, pin, settled, txn, written, wire,
                  line, rxBuf, values, i, rxSwitches, ret, result,
                  rawValue, report >>

\* digitalWrite(DE,HIGH): the first statement of a read function.
HandTxDE ==
  /\ Hand /\ pc = "tx_de" /\ cycle <= MaxCycles
  /\ digitalWrite(DE, "HIGH")
  /\ settled' = FALSE
  /\ txn' = txn + 1
  /\ written' = -1
  /\ wire' = << >>
  /\ i' = 0
  /\ rxSwitches' = 0
  /\ line' = AgedBytes(line)
  /\ rxBuf' = AgedBytes(rxBuf)
  /\ values' = AgedSlots(values)
  /\ pc' = "tx_re"
  /\ UNCHANGED << sketch, cycle, param, ret, result, rawValue, report >>

\* digitalWrite(RE,HIGH)
HandTxRE ==
  /\ Hand /\ pc = "tx_re"
  /\ digitalWrite(RE, "HIGH")
  /\ settled' = FALSE
  /\ pc' = "settle"
  /\ UNCHANGED << sketch, cycle, param, txn, written, wire, line, rxBuf,
                  values, i, rxSwitches, ret, result, rawValue, report >>

\* delay(10)
HandSettle ==
  /\ Hand /\ pc = "settle"
  /\ settled' = TRUE
  /\ pc' = "write"
  /\ UNCHANGED << sketch, cycle, param, pin, txn, written, wire, line, rxBuf,
                  values, i, rxSwitches, ret, result, rawValue, report >>

\* Response bytes that answer the transaction in progress.
Tagged(bytes) == [k \in 1..Len(bytes) |-> [b |-> bytes[k], t |-> "now"]]

\* if(mod.write(frame,sizeof(frame))==8): the link accepts n bytes.  The
\* sensor answers a request it received whole.
HandWrite ==
  /\ Hand /\ pc = "write"
  /\ \E n \in 0..8 :
       /\ written' = n
       /\ wire' = SubSeq(RequestOf(param), 1, n)
       /\ IF n = 8
            THEN /\ \E reply \in RepliesTo[wire'] :
                      line' = line \o Tagged(reply)
                 /\ pc' = "rx_de"
            ELSE /\ line' = line
                 /\ pc' = "return"
  /\ UNCHANGED << sketch, cycle, param, pin, settled, txn, rxBuf, values, i,
                  rxSwitches, ret, result, rawValue, report >>

\* digitalWrite(DE,LOW)
HandRxDE ==
  /\ Hand /\ pc = "rx_de"
  /\ digitalWrite(DE, "LOW")
  /\ CountSwitch
  /\ settled' = FALSE
  /\ pc' = "rx_re"
  /\ UNCHANGED << sketch, cycle, param, txn, written, wire, line, rxBuf,
                  values, i, ret, result, rawValue, report >>

\* The switch to receive direction with the second digitalWrite left out.
HandRxRE_REKeptHigh ==
  /\ Hand /\ pc = "rx_re"
  /\ pc' = "read"
  /\ UNCHANGED << sketch, cycle, param, pin, settled, txn, written, wire,
                  line, rxBuf, values, i, rxSwitches, ret, result, rawValue,
                  report >>

\* digitalWrite(RE,LOW)
HandRxRE ==
  /\ Hand /\ pc = "rx_re"
  /\ digitalWrite(RE, "LOW")
  /\ CountSwitch
  /\ settled' = FALSE
  /\ pc' = "read"
  /\ UNCHANGED << sketch, cycle, param, txn, written, wire, line, rxBuf,
                  values, i, ret, result, rawValue, report >>

\* mod.read(): the oldest buffered byte, or -1 (0xFF as a byte) when the
\* buffer is empty.
ModRead ==
  IF rxBuf = << >> THEN Slot(255, "none", "now")
  ELSE Slot(Head(rxBuf).b, IF Head(rxBuf).t = "now" THEN "own" ELSE "other",
            "now")

\* One pass of for(byte i=0;i<7;i++){ values[i] = mod.read(); ... }
HandRead ==
  /\ Hand /\ pc = "read" /\ i < 7
  /\ values' = [values EXCEPT ![i + 1] = ModRead]
  /\ rxBuf' = IF rxBuf = << >> THEN rxBuf ELSE Tail(rxBuf)
  /\ i' = i + 1
  /\ pc' = IF i + 1 < 7 THEN "read" ELSE "return"
  /\ UNCHANGED << sketch, cycle, param, pin, settled, txn, written, wire,
                  line, rxSwitches, ret, result, rawValue, report >>

\* The read function writing its request again after a short write.
HandReturn_WritesAgainAfterShortWrite ==
  /\ Hand /\ pc = "return"
  /\ ret' = values[5].b
  /\ pc' = IF written < 8 THEN "write"
           ELSE IF param < 6 THEN "pace" ELSE "print"
  /\ UNCHANGED << sketch, cycle, param, pin, settled, txn, written, wire,
                  line, rxBuf, values, i, rxSwitches, result, rawValue,
                  report >>

\* return values[4]; loop() keeps the value in val1..val6.
HandReturn ==
  /\ Hand /\ pc = "return"
  /\ ret' = values[5].b
  /\ pc' = IF param < 6 THEN "pace" ELSE "print"
  /\ UNCHANGED << sketch, cycle, param, pin, settled, txn, written, wire,
                  line, rxBuf, values, i, rxSwitches, result, rawValue,
                  report >>

\* The loop going on to the next read function only after a whole write.
HandPace_StopsAfterShortWrite ==
  /\ Hand /\ pc = "pace" /\ line = << >> /\ written = 8
  /\ param' = param + 1
  /\ pc' = "tx_de"
  /\ UNCHANGED << sketch, cycle, pin, settled, txn, written, wire, line,
                  rxBuf, values, i, rxSwitches, ret, result, rawValue,
                  report >>

\* delay(250) between two read functions; a response in flight arrives
\* within it.
HandPace ==
  /\ Hand /\ pc = "pace" /\ line = << >>
  /\ param' = param + 1
  /\ pc' = "tx_de"
  /\ UNCHANGED << sketch, cycle, pin, settled, txn, written, wire, line,
                  rxBuf, values, i, rxSwitches, ret, result, rawValue,
                  report >>

\* What loop() prints for a value a read function returned.  The
\* hand-rolled loop() prints every value as a reading; the library loop()
\* prints "Error reading data" for the value -1.0.
LoopPrints(x) ==
  IF Hand THEN "reading"
  ELSE IF x # MinusOne THEN "reading" ELSE "error"

\* The Serial.print block of loop(), which prints every val as a reading,
\* and delay(2000).
HandPrint ==
  /\ Hand /\ pc = "print" /\ line = << >>
  /\ report' = [p \in Params |-> LoopPrints(ret)]
  /\ cycle' = cycle + 1
  /\ param' = 1
  /\ pc' = "tx_de"
  /\ UNCHANGED << sketch, pin, settled, txn, written, wire, line, rxBuf,
                  values, i, rxSwitches, ret, result, rawValue >>

\* The body shared by nitrogen() .. temperature().
HandReadFunction ==
  \/ HandTxDE \/ HandTxRE \/ HandSettle \/ HandWrite
  \/ HandRxDE \/ HandRxRE \/ HandRead \/ HandReturn

nitrogen == param = 1 /\ HandReadFunction
phosphorous == param = 2 /\ HandReadFunction
potassium == param = 3 /\ HandReadFunction
electroconductivity == param = 4 /\ HandReadFunction
pH == param = 5 /\ HandReadFunction
temperature == param = 6 /\ HandReadFunction

\* Statements during which time passes on the line: the delay(250) after a
\* read function and the delay(2000) that ends loop().  A byte lasts about
\* 1 ms on the 9600 baud line (mod.begin(9600)); the statements between
\* the end of mod.write and the end of the read loop take microseconds.
Waiting == pc \in {"pace", "print"}

\* A response byte reaches the receive buffer.  The receiver is enabled
\* only while RE is LOW.
SensorDeliver ==
  /\ line # << >>
  /\ Waiting
  /\ pin[RE] = "LOW"
  /\ rxBuf' = Append(rxBuf, Head(line))
  /\ line' = Tail(line)
  /\ UNCHANGED << sketch, pc, cycle, param, pin, settled, txn, written, wire,
                  values, i, rxSwitches, ret, result, rawValue, report >>

-----------------------------------------------------------------------------
(* The library sketch.  node.readHoldingRegisters runs one ModbusMaster    *)
(* transaction: it calls preTransmission, writes the request, calls        *)
(* postTransmission and returns a result code chosen by the exchange.      *)

Lib == sketch = "lib"

\* setup(): the last two digitalWrite calls put the transceiver in receive
\* mode (DE LOW, RE LOW).
LibSetup ==
  /\ Lib /\ pc = "setup"
  /\ pin' = [pin EXCEPT ![DE] = "LOW", ![RE] = "LOW"]
  /\ pc' = "call"
  /\ UNCHANGED << sketch, cycle, param, settled, txn, written, wire, line,
                  rxBuf, values, i, rxSwitches, ret, result, rawValue,
                  report >>

\* A read function calls node.readHoldingRegisters(start, 1).
LibCall ==
  /\ Lib /\ pc = "call" /\ cycle <= MaxCycles
  /\ txn' = txn + 1
  /\ written' = -1
  /\ wire' = << >>
  /\ rxSwitches' = 0
  /\ pc' = "pre_re"
  /\ UNCHANGED << sketch, cycle, param, pin, settled, line, rxBuf, values, i,
                  ret, result, rawValue, report >>

\* preTransmission(): digitalWrite(MAX485_RE_PIN, HIGH)
preTransmissionRE ==
  /\ Lib /\ pc = "pre_re"
  /\ digitalWrite(RE, "HIGH")
  /\ settled' = FALSE
  /\ pc' = "pre_de"
  /\ UNCHANGED << sketch, cycle, param, txn, written, wire, line, rxBuf,
                  values, i, rxSwitches, ret, result, rawValue, report >>

\* preTransmission(): digitalWrite(MAX485_DE_PIN, HIGH), then the callback
\* returns to the library.
preTransmissionDE ==
  /\ Lib /\ pc = "pre_de"
  /\ digitalWrite(DE, "HIGH")
  /\ settled' = FALSE
  /\ pc' = "send"
  /\ UNCHANGED << sketch, cycle, param, txn, written, wire, line, rxBuf,
                  values, i, rxSwitches, ret, result, rawValue, report >>

preTransmission == preTransmissionRE \/ preTransmissionDE

\* The request the library builds for readHoldingRegisters(start, 1) on the
\* slave given to node.begin(1, ...).
LibRequests ==
  [p \in Params |-> WithCrc(<< 1, 3, 0, LibStartRegister(p), 0, 1 >>)]

LibRequest(p) == LibRequests[p]

\* The library writes the request between the two callbacks.
LibSend ==
  /\ Lib /\ pc = "send"
  /\ wire' = LibRequest(param)
  /\ written' = Len(wire')
  /\ pc' = "post_de"
  /\ UNCHANGED << sketch, cycle, param, pin, settled, txn, line, rxBuf,
                  values, i, rxSwitches, ret, result, rawValue, report >>

\* postTransmission(): digitalWrite(MAX485_DE_PIN, LOW)
postTransmissionDE ==
  /\ Lib /\ pc = "post_de"
  /\ digitalWrite(DE, "LOW")
  /\ CountSwitch
  /\ settled' = FALSE
  /\ pc' = "post_re"
  /\ UNCHANGED << sketch, cycle, param, txn, written, wire, line, rxBuf,
                  values, i, ret, result, rawValue, report >>

\* postTransmission(): digitalWrite(MAX485_RE_PIN, LOW), then the callback
\* returns to the library.
postTransmissionRE ==
  /\ Lib /\ pc = "post_re"
  /\ digitalWrite(RE, "LOW")
  /\ CountSwitch
  /\ settled' = FALSE
  /\ pc' = "await"
  /\ UNCHANGED << sketch, cycle, param, txn, written, wire, line, rxBuf,
                  values, i, ret, result, rawValue, report >>

postTransmission == postTransmissionDE \/ postTransmissionRE

\* readHoldingRegisters returns: ku8MBSuccess with a register in the
\* response buffer, or an error code.
LibResult ==
  /\ Lib /\ pc = "await"
  /\ \E code \in LibResults :
       /\ result' = code
       /\ IF code = ku8MBSuccess
            THEN rawValue' \in LibRawValues
            ELSE rawValue' = rawValue
  /\ pc' = "scale"
  /\ UNCHANGED << sketch, cycle, param, pin, settled, txn, written, wire,
                  line, rxBuf, values, i, rxSwitches, ret, report >>

\* What each read function returns for a successful read of raw.
readNitrogen(raw) == F32FromU16(raw)
readPhosphorous(raw) == F32FromU16(raw)
readPotassium(raw) == F32FromU16(raw)
readElectroconductivity(raw) == F32FromU16(raw)
\* The pH reading scaled like the temperature.
readPH_DividedBy10(raw) == F32DivU16(raw, 10)

readPH(raw) == F32DivU16(raw, 100)
readTemperature(raw) == F32DivU16(raw, 10)

Scaled(p, raw) ==
  CASE p = 1 -> readNitrogen(raw)
    [] p = 2 -> readPhosphorous(raw)
    [] p = 3 -> readPotassium(raw)
    [] p = 4 -> readElectroconductivity(raw)
    [] p = 5 -> readPH(raw)
    [] p = 6 -> readTemperature(raw)

\* if (result == node.ku8MBSuccess) return <scaled raw>; else return -1.0;
LibReturn ==
  /\ Lib /\ pc = "scale"
  /\ ret' = IF result = ku8MBSuccess THEN Scaled(param, rawValue) ELSE MinusOne
  /\ pc' = "report"
  /\ UNCHANGED << sketch, cycle, param, pin, settled, txn, written, wire,
                  line, rxBuf, values, i, rxSwitches, result, rawValue,
                  report >>

\* loop(): if (x != -1.0) print the reading, else print "Error reading
\* data"; then the delay before the next read function.
LibReport ==
  /\ Lib /\ pc = "report"
  /\ report' = [report EXCEPT ![param] = LoopPrints(ret)]
  /\ IF param < 6
       THEN param' = param + 1 /\ cycle' = cycle
       ELSE param' = 1 /\ cycle' = cycle + 1
  /\ pc' = "call"
  /\ UNCHANGED << sketch, pin, settled, txn, written, wire, line, rxBuf,
                  values, i, rxSwitches, ret, result, rawValue >>

Next ==
  \/ HandSetup
  \/ nitrogen \/ phosphorous \/ potassium
  \/ electroconductivity \/ pH \/ temperature
  \/ HandPace \/ HandPrint
  \/ SensorDeliver
  \/ LibSetup \/ LibCall \/ preTransmission \/ LibSend \/ postTransmission
  \/ LibResult \/ LibReturn \/ LibReport

Spec == Init /\ [][Next]_vars

\* loop() is called again and again and each statement of a sketch
\* returns: mod.write, mod.read and delay do not block forever, and
\* readHoldingRegisters returns at the latest when its response timeout
\* expires.  The sensor's bytes finish arriving during the delay that
\* follows the read function.  At most one of the sketch's next statement
\* and the arrival of a byte is enabled in a state, so this is fairness of
\* the single thread of control.
FairSpec == Spec /\ WF_vars(Next)

-----------------------------------------------------------------------------
(* Properties.                                                             *)

\* The read function of the hand-rolled sketch has returned to loop().
HandReturned == Hand /\ pc \in {"pace", "print"}

\* readHoldingRegisters has returned and the read function has returned.
LibReturned == Lib /\ pc = "report"

\* The seven bytes the read loop stored.
ReadBytes == [k \in 1..7 |-> values[k].b]

\* Every read of this transaction's loop took a byte from the link.
AllReceived ==
  \A k \in 1..7 : values[k].by = "now" /\ values[k].src # "none"

\* No read of this transaction's loop took a byte from the link.
NoneReceived ==
  \A k \in 1..7 : values[k].by = "now" /\ values[k].src = "none"

\* C1: every response byte a transaction's read loop consumed was sent by
\* the sensor in answer to that same transaction's request.
C1_NoByteOfAnotherTransaction ==
  \A k \in 1..7 : values[k].src # "other"

\* C2: in every transaction the switch to receive direction happens exactly
\* once, after the request is written and before any response byte is
\* read, also when the write reports fewer than 8 bytes.
C2_ReceiveEnteredOncePerTransaction ==
  /\ rxSwitches <= 1
  /\ rxSwitches = 1 => written >= 0
  /\ (\E k \in 1..7 : values[k].by = "now") => rxSwitches = 1
  /\ (HandReturned \/ LibReturned) => rxSwitches = 1

\* C3: when the first request byte is about to be written, both control
\* signals are HIGH and a settle delay has completed since they were driven.
C3_SettledBeforeFirstByte ==
  pc \in {"write", "send"} => Transmit /\ settled

\* Positions between the two digitalWrite calls of a direction switch.
MidSwitch == {"tx_re", "rx_re", "pre_de", "post_re"}

\* setup() has completed and no transaction has started.
AfterSetup == pc \in {"tx_de", "call"} /\ txn = 0

\* C4 as stated: in every reachable state (DE, RE) is (HIGH, HIGH) or
\* (LOW, LOW), and the state after setup() is Receive.
C4_AlwaysTransmitOrReceive ==
  /\ Transmit \/ Receive
  /\ AfterSetup => Receive

\* C4 amended: outside the states between the two digitalWrite calls of a
\* direction switch (DE, RE) is (HIGH, HIGH) or (LOW, LOW), and the state
\* after setup() is Receive.
C4_TransmitOrReceiveOutsideSwitch ==
  /\ pc \notin MidSwitch => Transmit \/ Receive
  /\ AfterSetup => Receive

\* A second transaction has switched back to receive direction.
C4_Witness == Hand /\ txn = 2 /\ pc = "read" /\ Receive

\* C5: after a write that reports fewer than 8 bytes the read function
\* does not return a byte an earlier transaction left in values[], and
\* loop() does not print the outcome as a reading.
C5_ShortWriteIsAnError ==
  (HandReturned /\ written < 8) =>
    /\ ~(ret = values[5].b /\ values[5].by = "old")
    /\ LoopPrints(ret) = "error"

\* C6: when no response byte was received the read function reports an
\* error: every read() of the hand-rolled loop gave -1, or
\* readHoldingRegisters gave a result other than ku8MBSuccess.
C6_NoResponseIsAnError ==
  ((HandReturned /\ written = 8 /\ NoneReceived)
     \/ (LibReturned /\ result # ku8MBSuccess))
    => LoopPrints(ret) = "error"

\* C7: a 7-byte response that fails validation (CRC, slave address 1,
\* function 0x03, byte count 2) never yields a value reported as a reading.
C7_InvalidFrameIsAnError ==
  (HandReturned /\ written = 8 /\ AllReceived /\ ~ValidFrame(ReadBytes))
    => LoopPrints(ret) = "error"

\* C8: when all 7 bytes of a valid single-register response are read, the
\* read function returns the register value, the big-endian combination of
\* payload bytes 3 and 4.
C8_ReturnsRegisterValue ==
  (HandReturned /\ written = 8 /\ AllReceived /\ ValidFrame(ReadBytes))
    => ret = ReadBytes[4] * 256 + ReadBytes[5]

\* The float f equals the integer r.
IsExactly(f, r) ==
  /\ ~f.neg
  /\ IF r = 0 THEN f.m = 0
     ELSE f.e <= 0 /\ f.e >= -23 /\ f.m = r * Pow2(-f.e)

\* The float f is a single-precision value nearest to r / d (d even): it is
\* normalised and within half a unit in the last place of the quotient, so
\* it equals r / d whenever that is representable.
IsNearest(f, r, d) ==
  /\ ~f.neg
  /\ IF r = 0 THEN f.m = 0
     ELSE /\ f.m >= 8388608 /\ f.m < 16777216
          /\ f.e <= 0 /\ f.e >= -30
          /\ LET diff == f.m * d - r * Pow2(-f.e)
             IN diff <= d \div 2 /\ -diff <= d \div 2

\* The float f is the reading of parameter p for the raw register r.
IsReading(p, f, r) ==
  CASE p \in 1..4 -> IsExactly(f, r)
    [] p = 5 -> IsNearest(f, r, 100)
    [] p = 6 -> IsNearest(f, r, 10)

\* C9: for every raw register r in 0..65535 the library sketch's readPH
\* gives r/100, readTemperature r/10 (as single-precision floats) and the
\* other four read functions r unchanged; and that is the value a read
\* function returns to loop() after a successful read.  The first conjunct
\* does not depend on the state and is evaluated in the initial state.
C9_ScalesRawRegister ==
  /\ (Lib /\ pc = "setup") =>
       \A r \in 0..65535 : \A p \in Params : IsReading(p, Scaled(p, r), r)
  /\ (LibReturned /\ result = ku8MBSuccess) => IsReading(param, ret, rawValue)

\* readPH has returned 7.25 = 15204352 * 2^-21 for the raw register 725.
C9_Witness ==
  /\ LibReturned /\ result = ku8MBSuccess
  /\ param = 5 /\ rawValue = 725
  /\ ret = F32(FALSE, 15204352, -21)

\* Start registers of the register map, in loop order.
MapStartRegister(p) ==
  CASE p = 1 -> 30
    [] p = 2 -> 31
    [] p = 3 -> 32
    [] p = 4 -> 21
    [] p = 5 -> 6
    [] p = 6 -> 18

\* An 8-byte request for parameter p: slave 1, function 3, the start
\* register of the map big-endian, and the CRC16 of bytes 0..5 low byte
\* first.
ValidRequest(frame, p) ==
  /\ Len(frame) = 8
  /\ frame[1] = 1
  /\ frame[2] = 3
  /\ frame[3] * 256 + frame[4] = MapStartRegister(p)
  /\ LET crc == CRC16(SubSeq(frame, 1, 6))
     IN frame[7] = lowByte(crc) /\ frame[8] = highByte(crc)

\* The parameters whose hard-coded request frame is valid.
ValidRequestParams == {p \in Params : ValidRequest(RequestOf(p), p)}

\* C10: each of the six hard-coded request frames is a valid 8-byte Modbus
\* request for the start register of its parameter, and it is the frame
\* the read function of that parameter puts on the link.
C10_RequestFramesValid ==
  /\ ValidRequestParams = Params
  /\ (Hand /\ pc # "tx_de" /\ written = 8) => wire = RequestOf(param)

\* temperature() has written its whole request.
C10_Witness ==
  Hand /\ pc = "rx_de" /\ written = 8 /\ param = 6 /\ wire = temp

-----------------------------------------------------------------------------------------------------------------------------------------------------
(* Polling order and progress.                                             *)

\* The read function of the current parameter has returned to loop() as a
\* failure: a short write or no response byte in the hand-rolled sketch, a
\* result other than ku8MBSuccess in the library sketch.
Failed ==
  \/ HandReturned /\ (written < 8 \/ NoneReceived)
  \/ LibReturned /\ result # ku8MBSuccess

\* loop() is about to call a read function.
Calling == pc \in {"tx_de", "call"}

\* loop() goes on to another parameter only by calling the read function
\* that follows in the fixed order, after the read function of the current
\* parameter wrote its request and returned: the next parameter of the
\* same cycle, or nitrogen of the next cycle after temperature.
NextInOrder ==
  \/ param' = param /\ cycle' = cycle
  \/ /\ HandReturned \/ LibReturned
     /\ written >= 0
     /\ Calling'
     /\ \/ param < 6 /\ param' = param + 1 /\ cycle' = cycle
        \/ param = 6 /\ param' = 1 /\ cycle' = cycle + 1

\* The step that follows a failed transaction calls the read function of
\* the next parameter in the same cycle (bytes may still arrive first).
AfterFailure ==
  (Failed /\ param < 6) =>
    \/ Failed' /\ param' = param /\ cycle' = cycle
    \/ Calling' /\ param' = param + 1 /\ cycle' = cycle

\* C11: the parameters are polled in the fixed order nitrogen, phosphorus,
\* potassium, electroconductivity, pH, temperature; after a failed
\* transaction the next step of loop() calls the read function of the next
\* parameter in the same cycle; and polling never stops: every cycle is
\* completed and followed by the next call of loop().
C11_PollingContinues ==
  /\ [][NextInOrder /\ AfterFailure]_vars
  /\ <>(cycle > MaxCycles)

\* phosphorous() is at its write after nitrogen() wrote its request and
\* read no response byte.
C11_Witness ==
  /\ Hand /\ cycle = 1 /\ param = 2 /\ pc = "write"
  /\ \A k \in 1..7 : values[k] = Slot(255, "none", "old")

-----------------------------------------------------------------------------
(* Response length.                                                        *)

\* The register count a request frame encodes in its bytes 4..5.
RegisterCount(frame) == frame[5] * 256 + frame[6]

\* Response bytes the read loop of the transaction in progress took from
\* the link (a read() of the empty buffer takes none).
Consumed ==
  Cardinality({k \in 1..7 : values[k].by = "now" /\ values[k].src # "none"})

\* C12: when the read loop of a read function has ended and never found
\* the receive buffer empty, the number of response bytes it consumed is
\* 5 + 2 x the register count of the request frame the function wrote, for
\* the temperature request (count 2) as for the other five.
C12_ConsumesResponseLength ==
  (HandReturned /\ written = 8 /\ AllReceived) =>
    Consumed = 5 + 2 * RegisterCount(RequestOf(param))

-----------------------------------------------------------------------------
(* The two sketches compared.                                              *)

\* Slave address, function code, start register and register count of a
\* request frame.
RequestFields(frame) ==
  << frame[1], frame[2], frame[3] * 256 + frame[4], RegisterCount(frame) >>

\* C13: the request a read function of the hand-rolled sketch has written
\* has the slave address, function code, start register and register count
\* of the request the library sketch issues for the same parameter; and
\* when its read loop read a valid response frame, the value it returns is
\* the reading the library sketch's read function of that parameter
\* returns for the register in that frame.
C13_SketchesAgree ==
  /\ (Hand /\ pc # "tx_de" /\ written = 8) =>
       RequestFields(wire) = RequestFields(LibRequest(param))
  /\ (HandReturned /\ written = 8 /\ AllReceived /\ ValidFrame(ReadBytes)) =>
       F32FromU16(ret) = Scaled(param, ReadBytes[4] * 256 + ReadBytes[5])

-----------------------------------------------------------------------------
(* One exchange per call.                                                  *)

\* A step that executes the write of the request.
WriteStep == pc \in {"write", "send"} /\ pc' # pc

\* C14: in a call of a read function the request is written once: the
\* write is executed only when no write was executed in this call, a read
\* function returns to loop() only after its write, with or without
\* success, and only the call of the next read function makes a write
\* possible again.
OneWritePerCall ==
  /\ WriteStep => written = -1 /\ written' >= 0
  /\ (HandReturned \/ LibReturned)' => written' >= 0
  /\ (written >= 0 /\ written' # written) => Calling \/ pc = "setup"

C14_OneExchangePerCall == [][OneWritePerCall]_vars

\* nitrogen() has returned to loop() after a write that accepted 3 bytes.
C14_Witness ==
  /\ Hand /\ pc = "pace" /\ param = 1
  /\ written = 3 /\ wire = << 1, 3, 0 >>

-----------------------------------------------------------------------------
(* The error value of the library sketch.                                  *)

\* The parameter loop() reported last.
Reported == IF param = 1 THEN 6 ELSE param - 1

\* C15: for every raw register r in 0..65535 and every parameter the value
\* a read function of the library sketch returns on success is not
\* negative, hence not -1.0; and loop() prints "Error reading data" for a
\* parameter exactly when readHoldingRegisters returned a result other
\* than ku8MBSuccess for it.  The first conjunct does not depend on the
\* state and is evaluated in the initial state.
C15_ErrorValueIsNoReading ==
  /\ (Lib /\ pc = "setup") =>
       \A r \in 0..65535 : \A p \in Params :
         ~Scaled(p, r).neg /\ Scaled(p, r) # MinusOne
  /\ LibReturned =>
       (LoopPrints(ret) = "error" <=> result # ku8MBSuccess)
  /\ (Lib /\ pc = "call" /\ txn >= 1) =>
       (report[Reported] = "error" <=> result # ku8MBSuccess)

\* loop() has printed the reading 0.00 of pH for the raw register 0.
C15_Witness ==
  /\ Lib /\ pc = "call" /\ param = 6
  /\ result = ku8MBSuccess /\ rawValue = 0 /\ ret = F32Zero
  /\ report[5] = "reading"

====
